---- MODULE Spec2Model ----
(***************************************************************************)
(* Model of test01.py, the Chinese text preprocessing script: the text     *)
(* normaliser (preprocess_text), the stopword filter, the frequency        *)
(* ranking, and the file handling of one run of main().                    *)
(*                                                                         *)
(* A text is a sequence of Unicode code points (naturals); a token is a    *)
(* text; a file on disk is a record holding the bytes stored in it.        *)
(***************************************************************************)
EXTENDS Integers, Sequences, FiniteSets, TLC

VARIABLES
    pc,                \* position of the running specification
    raw,               \* the text as read, before preprocess_text
    text,              \* preprocess_text(raw)
    text2,             \* preprocess_text(text): the normaliser applied again
    words_default,     \* the token list given to filter_stopwords
    stopwords,         \* the stopword set
    filtered_words,    \* filter_stopwords(words_default, stopwords)
    word_freq,         \* Counter(filtered_words): (word, count) pairs in
                       \* the order the words were first counted
    sorted_word_freq,  \* the ranking: word_freq sorted by count, descending
    fs,                \* the files: input, stop, freq, tfidf, textrank
    fs0,               \* the files as they were when the current run began
    stages,            \* the pipeline stages the current run has executed
    outcomes,          \* per written file: what its write met in this run
    results,           \* per written file: what write_file returned
    run,               \* the number of the current run
    created            \* whether the last run found no stopword file and
                       \* wrote the default one

normVars == <<raw, text, text2>>

freqVars == <<words_default, stopwords, filtered_words, word_freq,
              sorted_word_freq>>

runVars == <<fs, fs0, stages, outcomes, results, run, created>>

vars == <<pc, normVars, freqVars, runVars>>

(***************************************************************************)
(* Character classes of Python's re module on str patterns.                *)
(***************************************************************************)

\* \s : Unicode whitespace (str.isspace)
IsSpace(c) ==
    \/ c \in 9..13
    \/ c \in 28..32
    \/ c \in {133, 160, 5760, 8232, 8233, 8239, 8287, 12288}
    \/ c \in 8192..8202

\* \d : Unicode decimal digits (category Nd); the ranges below are the ASCII,
\* Arabic-Indic and fullwidth digits.
IsDigit(c) == c \in 48..57 \/ c \in 1632..1641 \/ c \in 65296..65305

\* [a-zA-Z]
IsLatin(c) == c \in 65..90 \/ c \in 97..122

\* [一-龥]
IsCJK(c) == c \in 19968..40869

(***************************************************************************)
(* Line 97: re.sub(r'<[^>]+>|http[s]?://[^\s]+|\d+|[a-zA-Z]+', '', text).   *)
(* Each XxxEnd(t, i) is the position just after the match of one           *)
(* alternative starting at position i, or 0 when it does not match there.  *)
(***************************************************************************)

\* the line boundaries of str.splitlines()
IsLineBreak(c) == c \in {10, 11, 12, 13, 28, 29, 30, 133, 8232, 8233}

\* whether character c is in the class named cls
InClass(c, cls) ==
    IF cls = "space" THEN IsSpace(c)
    ELSE IF cls = "not space" THEN ~IsSpace(c)
    ELSE IF cls = "digit" THEN IsDigit(c)
    ELSE IF cls = "latin" THEN IsLatin(c)
    ELSE IF cls = "not >" THEN c # 62
    ELSE ~IsLineBreak(c)                      \* "not line break"

\* the end of the maximal run of characters of class cls from position i on
\* (i itself when t[i] is not in the class)
RunEnd(t, i, cls) ==
    LET stops == {j \in i..Len(t) : ~InClass(t[j], cls)}
    IN  IF stops = {} THEN Len(t) + 1
        ELSE CHOOSE j \in stops : \A k \in stops : j <= k

\* <[^>]+> : '<', one or more characters other than '>', then '>'
TagEnd(t, i) ==
    IF t[i] # 60 THEN 0
    ELSE LET e == RunEnd(t, i + 1, "not >")
         IN  IF e > i + 1 /\ e <= Len(t) THEN e + 1 ELSE 0

\* whether the characters of lit occur in t from position i on
LitAt(t, i, lit) ==
    /\ i + Len(lit) - 1 <= Len(t)
    /\ \A k \in 1..Len(lit) : t[i + k - 1] = lit[k]

\* http[s]?://[^\s]+
UrlEnd(t, i) ==
    IF ~LitAt(t, i, <<104, 116, 116, 112>>) THEN 0
    ELSE LET k == IF LitAt(t, i + 4, <<115>>) THEN i + 5 ELSE i + 4
         IN  IF ~LitAt(t, k, <<58, 47, 47>>) THEN 0
             ELSE LET e == RunEnd(t, k + 3, "not space")
                  IN  IF e > k + 3 THEN e ELSE 0

\* \d+
DigitsEnd(t, i) ==
    LET e == RunEnd(t, i, "digit") IN IF e > i THEN e ELSE 0

\* [a-zA-Z]+
LatinEnd(t, i) ==
    LET e == RunEnd(t, i, "latin") IN IF e > i THEN e ELSE 0

\* the alternatives are tried in the order they are written
MatchEnd(t, i) ==
    IF TagEnd(t, i) # 0 THEN TagEnd(t, i)
    ELSE IF UrlEnd(t, i) # 0 THEN UrlEnd(t, i)
    ELSE IF DigitsEnd(t, i) # 0 THEN DigitsEnd(t, i)
    ELSE LatinEnd(t, i)

RECURSIVE RemoveFrom(_, _)
\* the leftmost non-overlapping matches, scanning from position i, removed
RemoveFrom(t, i) ==
    IF i > Len(t) THEN <<>>
    ELSE IF MatchEnd(t, i) # 0 THEN RemoveFrom(t, MatchEnd(t, i))
    ELSE <<t[i]>> \o RemoveFrom(t, i + 1)

RemoveMarkup(t) == RemoveFrom(t, 1)

\* Line 99: re.sub(r'[^一-龥]', ' ', text)
KeepCJK(t) == [i \in 1..Len(t) |-> IF IsCJK(t[i]) THEN t[i] ELSE 32]

RECURSIVE CollapseFrom(_, _)
\* Line 100: re.sub(r'\s+', ' ', text)
CollapseFrom(t, i) ==
    IF i > Len(t) THEN <<>>
    ELSE IF IsSpace(t[i]) THEN <<32>> \o CollapseFrom(t, RunEnd(t, i, "space"))
    ELSE <<t[i]>> \o CollapseFrom(t, i + 1)

\* line 100 with \s in place of \s+: every whitespace character becomes a
\* space of its own
CollapseSpaces_each(t) == [i \in 1..Len(t) |-> IF IsSpace(t[i]) THEN 32 ELSE t[i]]

CollapseSpaces(t) == CollapseFrom(t, 1)

\* str.strip(): leading and trailing whitespace removed
Strip(t) ==
    LET solid == {j \in 1..Len(t) : ~IsSpace(t[j])}
    IN  IF solid = {} THEN <<>>
        ELSE LET lo == CHOOSE j \in solid : \A k \in solid : j <= k
                 hi == CHOOSE j \in solid : \A k \in solid : j >= k
             IN  SubSeq(t, lo, hi)

\* a slip in the order of lines 99 and 100: whitespace collapsed and trimmed
\* before the non-CJK characters are turned into spaces
preprocess_text_swapped(t) == KeepCJK(Strip(CollapseSpaces(RemoveMarkup(t))))

\* preprocess_text, lines 94-100
preprocess_text(t) == Strip(CollapseSpaces(KeepCJK(RemoveMarkup(t))))

(***************************************************************************)
(* The normaliser on its own: every text built from at most MaxPieces      *)
(* pieces is normalised, and the result normalised again.                  *)
(***************************************************************************)

MaxPieces == 4

\* '<', '>', 'http', 's', '://', '1', ' ', newline, U+3000 (ideographic
\* space), U+4E2D, U+3400 (an ideograph outside the range of line 99), U+FF0C
\* (fullwidth comma)
Pieces ==
    { <<60>>, <<62>>, <<104, 116, 116, 112>>, <<115>>, <<58, 47, 47>>,
      <<49>>, <<32>>, <<10>>, <<12288>>, <<20013>>, <<13312>>, <<65292>> }

RECURSIVE Flatten(_)
Flatten(ss) == IF ss = <<>> THEN <<>> ELSE Head(ss) \o Flatten(Tail(ss))

InitNorm ==
    /\ pc = "start"
    /\ \E n \in 0..MaxPieces : \E ps \in [1..n -> Pieces] : raw = Flatten(ps)
    /\ text = <<>>
    /\ text2 = <<>>
    /\ words_default = <<>>
    /\ stopwords = {}
    /\ filtered_words = <<>>
    /\ word_freq = <<>>
    /\ sorted_word_freq = <<>>
    /\ fs = <<>>
    /\ fs0 = <<>>
    /\ stages = {}
    /\ outcomes = <<>>
    /\ results = <<>>
    /\ run = 0
    /\ created = FALSE

Normalize ==
    /\ pc = "start"
    /\ text' = preprocess_text(raw)
    /\ pc' = "normalized"
    /\ UNCHANGED <<raw, text2, freqVars, runVars>>

Renormalize ==
    /\ pc = "normalized"
    /\ text2' = preprocess_text(text)
    /\ pc' = "renormalized"
    /\ UNCHANGED <<raw, text, freqVars, runVars>>

NextNorm == Normalize \/ Renormalize

SpecNorm == InitNorm /\ [][NextNorm]_vars

\* C1: normalising an already normalised text changes nothing:
\* preprocess_text(preprocess_text(t)) = preprocess_text(t) for every input t.
C1_Idempotent == pc = "renormalized" => text2 = text

\* C1 witness: an input holding a URL and CJK text has been normalised twice,
\* and the first pass changed it.
C1_Witness ==
    /\ pc = "renormalized"
    /\ text # <<>>
    /\ text # raw
    /\ \E i \in 1..Len(raw) : UrlEnd(raw, i) # 0

OnlyCJKAndSingleSpaces(t) ==
    /\ \A i \in 1..Len(t) : IsCJK(t[i]) \/ t[i] = 32
    /\ \A i \in 1..Len(t) - 1 : ~(t[i] = 32 /\ t[i + 1] = 32)
    /\ t # <<>> => t[1] # 32 /\ t[Len(t)] # 32

\* C2: the output of preprocess_text holds only CJK ideographs and single
\* spaces, with no space first or last; an input without any CJK ideograph
\* (the empty input included) gives the empty string.
C2_OnlyCJK ==
    pc # "start" =>
        /\ OnlyCJKAndSingleSpaces(text)
        /\ (\A i \in 1..Len(raw) : ~IsCJK(raw[i])) => text = <<>>

\* C2 witness: an output in which two CJK runs are separated by one space that
\* stands for several non-CJK input characters.
C2_Witness ==
    /\ pc = "normalized"
    /\ \E i \in 1..Len(text) : text[i] = 32
    /\ Len(raw) > Len(text)

(***************************************************************************)
(* Stopword filtering and the frequency ranking.                           *)
(***************************************************************************)

\* the condition of the comprehension on line 110 with the membership test
\* made on the trimmed word
keeps_trimmed(word, stops) == Strip(word) # <<>> /\ Strip(word) \notin stops

\* line 110: word.strip() and word not in stopwords
keeps(word, stops) == Strip(word) # <<>> /\ word \notin stops

RECURSIVE filter_stopwords(_, _)
\* filter_stopwords, lines 108-110: the list comprehension, in list order
filter_stopwords(word_list, stops) ==
    IF word_list = <<>> THEN <<>>
    ELSE (IF keeps(Head(word_list), stops) THEN <<Head(word_list)>> ELSE <<>>)
         \o filter_stopwords(Tail(word_list), stops)

\* a counting step that never looks the word up: every token gets an entry
count_element_appending(counts, w) == Append(counts, <<w, 1>>)

\* one step of Counter's counting loop: mapping[elem] = mapping.get(elem, 0) + 1;
\* a dict keeps its keys in the order they were first inserted
count_element(counts, w) ==
    IF \E i \in 1..Len(counts) : counts[i][1] = w
    THEN [i \in 1..Len(counts) |->
             IF counts[i][1] = w THEN <<w, counts[i][2] + 1>> ELSE counts[i]]
    ELSE Append(counts, <<w, 1>>)

RECURSIVE count_elements(_, _)
count_elements(counts, words) ==
    IF words = <<>> THEN counts
    ELSE count_elements(count_element(counts, Head(words)), Tail(words))

\* line 177: Counter(filtered_words)
Counter(words) == count_elements(<<>>, words)

\* the place of an item among already sorted ones when items of equal count
\* end up in reverse order (an ascending sort that is then reversed)
sorted_place_reversed(done, item) ==
    Cardinality({i \in 1..Len(done) : done[i][2] > item[2]})

\* the place of an item among already sorted ones: sorted() is stable, also
\* with reverse=True, so the item goes after every item whose count is not
\* smaller
sorted_place(done, item) ==
    Cardinality({i \in 1..Len(done) : done[i][2] >= item[2]})

RECURSIVE sorted_into(_, _)
sorted_into(done, items) ==
    IF items = <<>> THEN done
    ELSE LET k == sorted_place(done, Head(items))
         IN  sorted_into(SubSeq(done, 1, k) \o <<Head(items)>>
                             \o SubSeq(done, k + 1, Len(done)),
                         Tail(items))

\* line 181: sorted(word_freq.items(), key=lambda x: x[1], reverse=True)
sorted_by_count(items) == sorted_into(<<>>, items)

MaxTokens == 4

\* U+7684 (a default stopword), U+4E2D, U+6587, a space, the stopword with a
\* space in front of it, and the empty token
Tokens == { <<30340>>, <<20013>>, <<25991>>, <<32>>, <<32, 30340>>, <<>> }

StopChoices == { <<30340>>, <<20013>>, <<32, 30340>> }

InitFreq ==
    /\ pc = "tokens"
    /\ \E n \in 0..MaxTokens : words_default \in [1..n -> Tokens]
    /\ stopwords \in SUBSET StopChoices
    /\ filtered_words = <<>>
    /\ word_freq = <<>>
    /\ sorted_word_freq = <<>>
    /\ raw = <<>>
    /\ text = <<>>
    /\ text2 = <<>>
    /\ fs = <<>>
    /\ fs0 = <<>>
    /\ stages = {}
    /\ outcomes = <<>>
    /\ results = <<>>
    /\ run = 0
    /\ created = FALSE

Filter ==
    /\ pc = "tokens"
    /\ filtered_words' = filter_stopwords(words_default, stopwords)
    /\ pc' = "filtered"
    /\ UNCHANGED <<runVars, normVars, words_default, stopwords, word_freq,
                   sorted_word_freq>>

Count ==
    /\ pc = "filtered"
    /\ word_freq' = Counter(filtered_words)
    /\ pc' = "counted"
    /\ UNCHANGED <<runVars, normVars, words_default, stopwords, filtered_words,
                   sorted_word_freq>>

Rank ==
    /\ pc = "counted"
    /\ sorted_word_freq' = sorted_by_count(word_freq)
    /\ pc' = "ranked"
    /\ UNCHANGED <<runVars, normVars, words_default, stopwords, filtered_words,
                   word_freq>>

NextFreq == Filter \/ Count \/ Rank

SpecFreq == InitFreq /\ [][NextFreq]_vars

\* the elements of s at the positions in idx, in ascending order of position
RECURSIVE Pick(_, _)
Pick(s, idx) ==
    IF idx = {} THEN <<>>
    ELSE LET m == CHOOSE i \in idx : \A j \in idx : i <= j
         IN  <<s[m]>> \o Pick(s, idx \ {m})

\* C3 as stated: the output is, in order, the tokens whose trimmed word is
\* non-empty and is not in the stopword set.
C3_TrimmedMembership ==
    pc \in {"filtered", "counted", "ranked"} =>
        filtered_words =
            Pick(words_default,
                 {i \in 1..Len(words_default) :
                     /\ Strip(words_default[i]) # <<>>
                     /\ Strip(words_default[i]) \notin stopwords})

\* C3 amended: the output is, in order and untransformed, the tokens whose
\* trimmed word is non-empty and which are themselves, as given, not in the
\* stopword set; no output token is empty or a member of the stopword set.
C3_Filter ==
    pc \in {"filtered", "counted", "ranked"} =>
        /\ filtered_words =
               Pick(words_default,
                    {i \in 1..Len(words_default) :
                        /\ Strip(words_default[i]) # <<>>
                        /\ words_default[i] \notin stopwords})
        /\ \A i \in 1..Len(filtered_words) :
               filtered_words[i] # <<>> /\ filtered_words[i] \notin stopwords

\* C3 witness: a token that is a stopword with a space in front of it has
\* passed the filter while the stopword itself was removed.
C3_Witness ==
    /\ pc = "filtered"
    /\ <<30340>> \in stopwords
    /\ \E i \in 1..Len(words_default) : words_default[i] = <<30340>>
    /\ \E i \in 1..Len(filtered_words) : filtered_words[i] = <<32, 30340>>
    /\ Len(filtered_words) >= 2

FirstIndex(s, w) == CHOOSE i \in 1..Len(s) : s[i] = w /\ \A j \in 1..(i - 1) : s[j] # w

\* C4: the ranking lists the (word, count) pairs of the frequency table by
\* descending count, and words of equal count in the order of their first
\* occurrence in the filtered token stream.
C4_Ranking ==
    pc = "ranked" =>
        /\ Len(sorted_word_freq) = Len(word_freq)
        /\ {sorted_word_freq[i] : i \in 1..Len(sorted_word_freq)}
               = {word_freq[i] : i \in 1..Len(word_freq)}
        /\ \A i, j \in 1..Len(sorted_word_freq) :
               i < j =>
                   /\ sorted_word_freq[i][2] >= sorted_word_freq[j][2]
                   /\ sorted_word_freq[i][2] = sorted_word_freq[j][2] =>
                          FirstIndex(filtered_words, sorted_word_freq[i][1])
                              < FirstIndex(filtered_words, sorted_word_freq[j][1])

\* C4 witness: a ranking in which a word seen later comes first because it is
\* more frequent, followed by two words of equal count.
C4_Witness ==
    /\ pc = "ranked"
    /\ Len(sorted_word_freq) = 3
    /\ sorted_word_freq[1][2] = 2
    /\ sorted_word_freq[2][2] = 1
    /\ sorted_word_freq[3][2] = 1
    /\ FirstIndex(filtered_words, sorted_word_freq[1][1]) > 1

RECURSIVE SumCounts(_)
SumCounts(items) ==
    IF items = <<>> THEN 0 ELSE Head(items)[2] + SumCounts(Tail(items))

\* C5: the frequency table has exactly one entry per distinct filtered token
\* (no key twice) and its counts add up to the number of filtered tokens.
C5_Table ==
    pc \in {"counted", "ranked"} =>
        /\ \A i, j \in 1..Len(word_freq) :
               word_freq[i][1] = word_freq[j][1] => i = j
        /\ {word_freq[i][1] : i \in 1..Len(word_freq)}
               = {filtered_words[i] : i \in 1..Len(filtered_words)}
        /\ SumCounts(word_freq) = Len(filtered_words)

\* C5 witness: a table with two entries, one of them counted more than once.
C5_Witness ==
    /\ pc = "counted"
    /\ Len(word_freq) = 2
    /\ \E i \in 1..2 : word_freq[i][2] >= 2
    /\ Len(filtered_words) < Len(words_default)

(***************************************************************************)
(* Files and their encodings.  A file is [exists, readable, bytes]; what   *)
(* open(..., encoding=...) and read() give is [ok, text]: ok is FALSE when *)
(* the call raised, and the caller then gets default_return, which is None *)
(* at both call sites.                                                     *)
(***************************************************************************)

Absent == [exists |-> FALSE, readable |-> FALSE, bytes |-> <<>>]

File(bs) == [exists |-> TRUE, readable |-> TRUE, bytes |-> bs]

Unreadable(bs) == [exists |-> TRUE, readable |-> FALSE, bytes |-> bs]

None == [ok |-> FALSE, text |-> <<>>]

Some(t) == [ok |-> TRUE, text |-> t]

\* the UTF-8 encoding of one code point
Utf8Char(c) ==
    IF c < 128 THEN <<c>>
    ELSE IF c < 2048 THEN <<192 + (c \div 64), 128 + (c % 64)>>
    ELSE IF c < 65536
         THEN <<224 + (c \div 4096), 128 + ((c \div 64) % 64), 128 + (c % 64)>>
    ELSE <<240 + (c \div 262144), 128 + ((c \div 4096) % 64),
           128 + ((c \div 64) % 64), 128 + (c % 64)>>

RECURSIVE Utf8Encode(_)
\* str.encode('utf-8'): the encodings of the code points, in order
Utf8Encode(t) ==
    IF t = <<>> THEN <<>>
    ELSE IF Len(t) = 1 THEN Utf8Char(t[1])
    ELSE LET h == Len(t) \div 2
         IN  Utf8Encode(SubSeq(t, 1, h)) \o Utf8Encode(SubSeq(t, h + 1, Len(t)))

IsCont(bs, i, lo, hi) == i <= Len(bs) /\ bs[i] >= lo /\ bs[i] <= hi

\* the length of the well-formed UTF-8 sequence starting at byte i, 0 if none
Utf8Width(bs, i) ==
    LET b == bs[i]
    IN  IF b < 128 THEN 1
        ELSE IF b \in 194..223
             THEN IF IsCont(bs, i + 1, 128, 191) THEN 2 ELSE 0
        ELSE IF b \in 224..239
             THEN IF /\ IsCont(bs, i + 1, IF b = 224 THEN 160 ELSE 128,
                                          IF b = 237 THEN 159 ELSE 191)
                     /\ IsCont(bs, i + 2, 128, 191)
                  THEN 3 ELSE 0
        ELSE IF b \in 240..244
             THEN IF /\ IsCont(bs, i + 1, IF b = 240 THEN 144 ELSE 128,
                                          IF b = 244 THEN 143 ELSE 191)
                     /\ IsCont(bs, i + 2, 128, 191)
                     /\ IsCont(bs, i + 3, 128, 191)
                  THEN 4 ELSE 0
        ELSE 0

Utf8Point(bs, i, w) ==
    IF w = 1 THEN bs[i]
    ELSE IF w = 2 THEN (bs[i] - 192) * 64 + (bs[i + 1] - 128)
    ELSE IF w = 3
         THEN (bs[i] - 224) * 4096 + (bs[i + 1] - 128) * 64 + (bs[i + 2] - 128)
    ELSE (bs[i] - 240) * 262144 + (bs[i + 1] - 128) * 4096
             + (bs[i + 2] - 128) * 64 + (bs[i + 3] - 128)

IsTrail(b) == b \in 128..191

Kept(c) == c # -1

\* whether trail byte i belongs to the sequence started by the nearest byte
\* before it that is not a trail byte
Covered(bs, i) ==
    \E d \in 1..3 :
        /\ i - d >= 1
        /\ ~IsTrail(bs[i - d])
        /\ \A k \in 1..(d - 1) : IsTrail(bs[i - k])
        /\ d < Utf8Width(bs, i - d)

\* bytes decoded as UTF-8; not ok where Python raises UnicodeDecodeError:
\* every byte that is not a trail byte must start a well-formed sequence, and
\* every trail byte must belong to one
Utf8Decode(bs) ==
    IF \A i \in 1..Len(bs) : IF IsTrail(bs[i]) THEN Covered(bs, i)
                                               ELSE Utf8Width(bs, i) > 0
    THEN Some(SelectSeq([i \in 1..Len(bs) |->
                            IF IsTrail(bs[i]) THEN -1
                            ELSE Utf8Point(bs, i, Utf8Width(bs, i))],
                        Kept))
    ELSE None

\* the double-byte GBK codes of the files modelled here: U+4E2D, U+6587, U+7684
GbkTable ==
    (<<214, 208>> :> 20013) @@ (<<206, 196>> :> 25991) @@ (<<181, 196>> :> 30340)

RECURSIVE GbkFrom(_, _)
GbkFrom(bs, i) ==
    IF i > Len(bs) THEN Some(<<>>)
    ELSE IF bs[i] < 128
         THEN LET rest == GbkFrom(bs, i + 1)
              IN  IF rest.ok THEN Some(<<bs[i]>> \o rest.text) ELSE None
    ELSE IF i + 1 <= Len(bs) /\ <<bs[i], bs[i + 1]>> \in DOMAIN GbkTable
         THEN LET rest == GbkFrom(bs, i + 2)
              IN  IF rest.ok
                  THEN Some(<<GbkTable[<<bs[i], bs[i + 1]>>]>> \o rest.text)
                  ELSE None
    ELSE None

\* bytes decoded as GBK
GbkDecode(bs) == GbkFrom(bs, 1)

\* text mode reading: "\r\n" and "\r" arrive as "\n"
Newlines(t) ==
    SelectSeq([i \in 1..Len(t) |->
                  IF t[i] = 13 THEN 10
                  ELSE IF t[i] = 10 /\ i > 1 /\ t[i - 1] = 13 THEN -1
                  ELSE t[i]],
              Kept)

\* read_file(file_path), lines 35-64, as both callers use it: default_return is
\* None and create_default is False, so lines 50-58 create nothing.
read_file(f) ==
    IF ~f.exists THEN None                           \* FileNotFoundError
    ELSE IF ~f.readable THEN None                    \* any other exception
    ELSE LET utf8 == Utf8Decode(f.bytes)
             gbk == GbkDecode(f.bytes)
         IN  IF utf8.ok THEN Some(Newlines(utf8.text))
             ELSE IF gbk.ok THEN Some(Newlines(gbk.text))  \* UnicodeDecodeError
             ELSE None

\* what a write can meet: it succeeds, open() raises, or open() has truncated
\* the file and writing to it raises
Outcomes == {"ok", "open_failed", "write_failed"}

\* the file after write_file(file_path, content), lines 67-75
written(f, content, outcome) ==
    IF outcome = "ok" THEN File(Utf8Encode(content))
    ELSE IF outcome = "open_failed" THEN f
    ELSE [exists |-> TRUE, readable |-> IF f.exists THEN f.readable ELSE TRUE,
          bytes |-> <<>>]

\* what write_file returns, lines 72 and 75
write_file_returns(outcome) == IF outcome = "ok" THEN "true" ELSE "false"

(***************************************************************************)
(* The stopword table.                                                     *)
(***************************************************************************)

\* DEFAULT_STOPWORDS, lines 27-32
DEFAULT_STOPWORDS ==
    {
      <<30340>>, <<20102>>, <<21644>>, <<26159>>, <<23601>>,
      <<37117>>, <<32780>>, <<21450>>, <<19982>>, <<30528>>,
      <<25110>>, <<19968, 20010>>, <<27809, 26377>>, <<25105, 20204>>, <<20320, 20204>>,
      <<20182, 20204>>, <<22905, 20204>>, <<23427, 20204>>, <<36825, 20010>>, <<37027, 20010>>,
      <<36825, 20123>>, <<37027, 20123>>, <<19981>>, <<22312>>, <<20154>>,
      <<25105>>, <<26377>>, <<20010>>, <<22909>>, <<26469>>,
      <<21435>>, <<20063>>, <<24456>>, <<20294>>, <<21543>>,
      <<21834>>, <<21602>>, <<21862>>
    }

\* str comparison: by code point, a proper prefix first
RECURSIVE LexLess(_, _)
LexLess(a, b) ==
    IF b = <<>> THEN FALSE
    ELSE IF a = <<>> THEN TRUE
    ELSE IF a[1] # b[1] THEN a[1] < b[1]
    ELSE LexLess(Tail(a), Tail(b))

\* the words in descending order
sorted_words_descending(S) ==
    [k \in 1..Cardinality(S) |->
        CHOOSE w \in S : Cardinality({v \in S : LexLess(w, v)}) = k - 1]

\* sorted(DEFAULT_STOPWORDS), line 87: the k-th word is the one with k - 1
\* smaller words
sorted_words(S) ==
    [k \in 1..Cardinality(S) |->
        CHOOSE w \in S : Cardinality({v \in S : LexLess(v, w)}) = k - 1]

\* sep.join(parts)
RECURSIVE Join(_, _)
Join(parts, sep) ==
    IF parts = <<>> THEN <<>>
    ELSE IF Len(parts) = 1 THEN parts[1]
    ELSE LET h == Len(parts) \div 2
         IN  Join(SubSeq(parts, 1, h), sep) \o sep
                 \o Join(SubSeq(parts, h + 1, Len(parts)), sep)

\* whether a line ends at position i: a line break, "\r\n" counting as one
IsLineEnd(t, i) ==
    IsLineBreak(t[i]) /\ ~(t[i] = 13 /\ i < Len(t) /\ t[i + 1] = 10)

\* the positions at which the lines of str.splitlines() start; there is no
\* empty last line after a final line break
LineStarts(t) == {s \in 1..Len(t) : s = 1 \/ IsLineEnd(t, s - 1)}

\* the line that starts at position s, without its line break
LineAt(t, s) == SubSeq(t, s, RunEnd(t, s, "not line break") - 1)

\* line 83: set(line.strip() for line in content.splitlines() if line.strip())
parse_stopwords(content) ==
    {Strip(LineAt(content, s)) : s \in LineStarts(content)} \ {<<>>}

\* the test of line 82 taken as "some stopword was read"
has_content_words(r) == r.ok /\ parse_stopwords(r.text) # {}

\* line 82, if content: neither None nor the empty string
has_content(r) == r.ok /\ r.text # <<>>

\* line 87
default_content == Join(sorted_words(DEFAULT_STOPWORDS), <<10>>)

\* what load_stopwords returns, lines 82-91, given what read_file returned and
\* what the write of the default file, if made, returned
load_stopwords(r, wrote) ==
    IF has_content(r) THEN parse_stopwords(r.text)
    ELSE IF wrote = "true" THEN DEFAULT_STOPWORDS
    ELSE {}

(***************************************************************************)
(* The library calls of the pipeline.  jieba is not part of the script:    *)
(* its results are any the call may give for the text.                     *)
(***************************************************************************)

RECURSIVE Segmentations(_)
\* segment_text, lines 103-105 (jieba.lcut): every maximal run of ideographs
\* is cut into consecutive words, every space is a token of its own
Segmentations(t) ==
    IF t = <<>> THEN {<<>>}
    ELSE IF IsSpace(t[1])
         THEN {<<<<t[1]>>>> \o rest : rest \in Segmentations(Tail(t))}
    ELSE LET e == RunEnd(t, 1, "not space")
         IN  UNION { {<<SubSeq(t, 1, k)>> \o rest :
                          rest \in Segmentations(SubSeq(t, k + 1, Len(t)))} :
                     k \in 1..(e - 1) }

\* extract_keywords, lines 113-118 (jieba.analyse): a list of (word, weight)
\* pairs, weights in millionths; here no keyword, or the leading word of the
\* text with weight 1.5
extract_keywords(t) ==
    {<<>>} \cup
    (IF t = <<>> THEN {}
     ELSE {<<<<SubSeq(t, 1, RunEnd(t, 1, "not space") - 1), 1500000>>>>})

RECURSIVE Decimal(_)
\* an integer as decimal digits
Decimal(n) ==
    IF n < 10 THEN <<48 + n>> ELSE Decimal(n \div 10) \o <<48 + (n % 10)>>

\* f"{weight:.6f}" of a weight given in millionths
Fixed6(w) ==
    Decimal(w \div 1000000) \o <<46>> \o
    [i \in 1..6 |-> 48 + ((w \div (10 ^ (6 - i))) % 10)]

\* the text save_results writes, lines 123-128
save_results_content(data, is_keywords) ==
    Join([i \in 1..Len(data) |->
             data[i][1] \o <<58, 32>> \o
             (IF is_keywords THEN Fixed6(data[i][2]) ELSE Decimal(data[i][2]))],
         <<10>>)

(***************************************************************************)
(* Runs of main(), lines 136-199.                                          *)
(***************************************************************************)

MaxRuns == 2

Artifacts == {"stop", "freq", "tfidf", "textrank"}

NothingWritten == [a \in Artifacts |-> "none"]

\* the input files a run may find: none, an empty one, one it may not read,
\* bytes that are neither UTF-8 nor GBK, a GBK file, UTF-8 files with and
\* without ideographs
InputFiles ==
    { Absent, File(<<>>), Unreadable(<<228, 184, 173>>), File(<<255>>),
      File(<<214, 208, 206, 196, 32, 181, 196>>),
      File(Utf8Encode(<<20013, 25991, 65292, 30340>>)),
      File(<<49>>) }

\* the stopword files a run may find: none, an empty one, one it may not read,
\* undecodable bytes, blank lines only, a GBK file, a UTF-8 file with blank
\* lines and padded entries
StopFiles ==
    { Absent, File(<<>>), Unreadable(<<231, 154, 132>>), File(<<255>>),
      File(<<10, 32, 10>>), File(<<181, 196>>),
      File(Utf8Encode(<<30340, 10, 10, 32, 25991, 32, 13, 10>>)) }

Init ==
    /\ pc = "main"
    /\ fs \in [input : InputFiles, stop : StopFiles, freq : {Absent},
               tfidf : {Absent}, textrank : {Absent}]
    /\ fs0 = fs
    /\ run = 1
    /\ stages = {}
    /\ outcomes = NothingWritten
    /\ results = NothingWritten
    /\ created = FALSE
    /\ raw = <<>>
    /\ text = <<>>
    /\ text2 = <<>>
    /\ words_default = <<>>
    /\ stopwords = {}
    /\ filtered_words = <<>>
    /\ word_freq = <<>>
    /\ sorted_word_freq = <<>>

\* line 145 taken as "text is None"
text_loaded_not_none(r) == r.ok

\* line 145, if not text: None and the empty string both stop the run
text_loaded(r) == r.ok /\ r.text # <<>>

\* a main() that gives up after a failed save
after_save_abort(result, next) == IF result = "true" THEN next ELSE "done"

\* lines 182, 188, 194: main ignores what save_results returns
after_save(result, next) == next

\* lines 138-148
StartRun ==
    /\ pc = "main"
    /\ LET r == read_file(fs.input)
       IN  IF ~fs.input.exists \/ ~text_loaded(r)
           THEN /\ pc' = "done"
                /\ UNCHANGED <<raw, text>>
           ELSE /\ pc' = "load_stopwords"
                /\ raw' = r.text
                /\ text' = preprocess_text(r.text)
    /\ UNCHANGED <<text2, freqVars, runVars>>

\* line 152 and load_stopwords, lines 78-91
LoadStopwords ==
    /\ pc = "load_stopwords"
    /\ LET r == read_file(fs.stop)
       IN  \E o \in (IF has_content(r) THEN {"none"} ELSE Outcomes) :
               LET wrote == IF o = "none" THEN "none" ELSE write_file_returns(o)
                   after == IF o = "none" THEN fs.stop
                            ELSE written(fs.stop, default_content, o)
                   stops == load_stopwords(r, wrote)
               IN  /\ stopwords' = stops
                   /\ fs' = [fs EXCEPT !.stop = after]
                   /\ outcomes' = [outcomes EXCEPT !.stop = o]
                   /\ results' = [results EXCEPT !.stop = wrote]
    /\ stages' = stages \cup {"load_stopwords"}
    /\ pc' = "segment"
    /\ UNCHANGED <<normVars, words_default, filtered_words, word_freq,
                   sorted_word_freq, fs0, run, created>>

\* lines 155-168: both segmentations; only the precise one is used later
Segment ==
    /\ pc = "segment"
    /\ words_default' \in Segmentations(text)
    /\ stages' = stages \cup {"segment", "segment_search"}
    /\ pc' = "filter"
    /\ UNCHANGED <<normVars, stopwords, filtered_words, word_freq,
                   sorted_word_freq, fs, fs0, outcomes, results, run,
                   created>>

\* lines 172-182: filter, count, rank, save the frequency table
FilterAndCount ==
    /\ pc = "filter"
    /\ \E o \in Outcomes :
           LET kept == filter_stopwords(words_default, stopwords)
               ranked == sorted_by_count(Counter(kept))
           IN  /\ filtered_words' = kept
               /\ word_freq' = Counter(kept)
               /\ sorted_word_freq' = ranked
               /\ fs' = [fs EXCEPT !.freq =
                            written(fs.freq, save_results_content(ranked, FALSE), o)]
               /\ outcomes' = [outcomes EXCEPT !.freq = o]
               /\ results' = [results EXCEPT !.freq = write_file_returns(o)]
               /\ pc' = after_save(write_file_returns(o), "tfidf")
    /\ stages' = stages \cup {"filter", "count"}
    /\ UNCHANGED <<normVars, words_default, stopwords, fs0, run, created>>

\* lines 186-188
KeywordsTfidf ==
    /\ pc = "tfidf"
    /\ \E kw \in extract_keywords(text), o \in Outcomes :
           /\ fs' = [fs EXCEPT !.tfidf =
                        written(fs.tfidf, save_results_content(kw, TRUE), o)]
           /\ outcomes' = [outcomes EXCEPT !.tfidf = o]
           /\ results' = [results EXCEPT !.tfidf = write_file_returns(o)]
           /\ pc' = after_save(write_file_returns(o), "textrank")
    /\ stages' = stages \cup {"tfidf"}
    /\ UNCHANGED <<normVars, freqVars, fs0, run, created>>

\* lines 192-194
KeywordsTextrank ==
    /\ pc = "textrank"
    /\ \E kw \in extract_keywords(text), o \in Outcomes :
           /\ fs' = [fs EXCEPT !.textrank =
                        written(fs.textrank, save_results_content(kw, TRUE), o)]
           /\ outcomes' = [outcomes EXCEPT !.textrank = o]
           /\ results' = [results EXCEPT !.textrank = write_file_returns(o)]
           /\ pc' = after_save(write_file_returns(o), "done")
    /\ stages' = stages \cup {"textrank"}
    /\ UNCHANGED <<normVars, freqVars, fs0, run, created>>

\* the script is started again: a new process, the files as the last run left
\* them
NextRun ==
    /\ pc = "done"
    /\ run < MaxRuns
    /\ pc' = "main"
    /\ run' = run + 1
    /\ fs0' = fs
    /\ stages' = {}
    /\ outcomes' = NothingWritten
    /\ results' = NothingWritten
    /\ raw' = <<>>
    /\ text' = <<>>
    /\ words_default' = <<>>
    /\ stopwords' = {}
    /\ filtered_words' = <<>>
    /\ word_freq' = <<>>
    /\ sorted_word_freq' = <<>>
    /\ created' = (~fs0.stop.exists /\ outcomes.stop = "ok")
    /\ UNCHANGED <<text2, fs>>

Next ==
    \/ StartRun
    \/ LoadStopwords
    \/ Segment
    \/ FilterAndCount
    \/ KeywordsTfidf
    \/ KeywordsTextrank
    \/ NextRun

Spec == Init /\ [][Next]_vars

AllStages ==
    {"load_stopwords", "segment", "segment_search", "filter", "count", "tfidf",
     "textrank"}

Undecodable(bs) == ~Utf8Decode(bs).ok /\ ~GbkDecode(bs).ok

\* C6: when the input file is absent, empty, or decodable neither as UTF-8 nor
\* as GBK, the run ends at once: no file is written or created, the stopword
\* file included, no write is attempted and no stage is executed.
C6_AbortsBeforeOutput ==
    (/\ pc # "main"
     /\ \/ ~fs0.input.exists
        \/ fs0.input.bytes = <<>>
        \/ Undecodable(fs0.input.bytes))
    => /\ pc = "done"
       /\ fs = fs0
       /\ stages = {}
       /\ outcomes = NothingWritten

\* C6 witness: a second run over an input that is neither UTF-8 nor GBK has
\* ended, and there is still no stopword file.
C6_Witness ==
    /\ pc = "done"
    /\ run = 2
    /\ fs.input.exists
    /\ fs.input.bytes # <<>>
    /\ Undecodable(fs.input.bytes)
    /\ ~fs.stop.exists

\* the stages a run has executed when it stands at a given position
StagesBefore(p) ==
    IF p = "segment" THEN {"load_stopwords"}
    ELSE IF p = "filter" THEN {"load_stopwords", "segment", "segment_search"}
    ELSE IF p = "tfidf" THEN AllStages \ {"tfidf", "textrank"}
    ELSE IF p = "textrank" THEN AllStages \ {"textrank"}
    ELSE IF p = "done" THEN AllStages
    ELSE {}

\* C7: a failed write is reported as a false result and never ends the run:
\* whatever the writes before it met, each stage is executed in turn, so a run
\* that got past the input check ends only after every stage was executed and
\* the write of every result file was attempted.
C7_WriteFailuresDoNotAbort ==
    /\ \A a \in Artifacts :
           outcomes[a] # "none" =>
               results[a] = (IF outcomes[a] = "ok" THEN "true" ELSE "false")
    /\ stages # {} =>
           /\ stages = StagesBefore(pc)
           /\ outcomes.freq # "none" <=> pc \in {"tfidf", "textrank", "done"}
           /\ outcomes.tfidf # "none" <=> pc \in {"textrank", "done"}
           /\ outcomes.textrank # "none" <=> pc = "done"

\* C7 witness: a run in which all four writes failed has ended with every
\* stage executed.
C7_Witness ==
    /\ pc = "done"
    /\ stages = AllStages
    /\ \A a \in Artifacts : outcomes[a] \in {"open_failed", "write_failed"}
    /\ \A a \in Artifacts : results[a] = "false"

\* the lines of the file are the built-in default entries, each once, in
\* ascending order (every line is smaller than the line after it)
HoldsSortedDefaults(f) ==
    /\ f.exists
    /\ Utf8Decode(f.bytes).ok
    /\ LET t == Utf8Decode(f.bytes).text
           starts == LineStarts(t)
       IN  /\ Cardinality(starts) = Cardinality(DEFAULT_STOPWORDS)
           /\ {LineAt(t, s) : s \in starts} = DEFAULT_STOPWORDS
           /\ \A s1, s2 \in starts :
                  (s1 < s2 /\ \A s \in starts : ~(s1 < s /\ s < s2))
                      => LexLess(LineAt(t, s1), LineAt(t, s2))

\* C8: a run that finds no stopword file and whose write of it succeeds leaves
\* a file whose lines are exactly the built-in default entries in sorted
\* order; the next run reads that file, gets the built-in default set, and
\* neither writes nor changes the file.
C8_DefaultFileCreatedAndReused ==
    /\ (pc = "segment" /\ ~fs0.stop.exists /\ outcomes.stop = "ok")
           => HoldsSortedDefaults(fs.stop)
    /\ (created /\ "load_stopwords" \in stages) =>
           /\ stopwords = DEFAULT_STOPWORDS
           /\ outcomes.stop = "none"
           /\ fs.stop = fs0.stop
           /\ pc = "segment" => HoldsSortedDefaults(fs.stop)

\* C8 witness: the run after the one that created the default file has loaded
\* its stopwords.
C8_Witness ==
    /\ run = 2
    /\ created
    /\ pc = "segment"
    /\ HoldsSortedDefaults(fs.stop)

\* C9: a run that finds no stopword file filters with the built-in default
\* set, also when writing the default file fails.
C9_DefaultSetUsed ==
    ("load_stopwords" \in stages /\ ~fs0.stop.exists)
        => stopwords = DEFAULT_STOPWORDS

\* reading the file yields no content: it is absent, unreadable, zero-length,
\* or decodable neither as UTF-8 nor as GBK
NoContent(f) ==
    ~f.exists \/ ~f.readable \/ f.bytes = <<>> \/ Undecodable(f.bytes)

\* C10: in every run load_stopwords writes the stopword file if and only if
\* reading it yielded no content; a file with non-empty decodable content,
\* blank lines only included, is left as it is; and no other step of a run
\* writes or changes the stopword file.
C10_WritesIffNoContent ==
    /\ [](pc = "segment" =>
              /\ outcomes.stop # "none" <=> NoContent(fs0.stop)
              /\ ~NoContent(fs0.stop) => fs.stop = fs0.stop)
    /\ [][pc # "load_stopwords" =>
              /\ fs'.stop = fs.stop
              /\ pc # "done" => outcomes'.stop = outcomes.stop]_vars

\* C10 witness: a second run over a stopword file of blank lines only has
\* ended; the file is as it was and no stopword was read.
C10_Witness ==
    /\ pc = "done"
    /\ run = 2
    /\ "load_stopwords" \in stages
    /\ fs.stop = File(<<10, 32, 10>>)
    /\ stopwords = {}

====
